---- MODULE Spec2Model ----
(***************************************************************************)
(* A model of the Bitcoin content curator: the pipeline of                 *)
(* src/src/pipeline.py over the record store of src/src/database.py, the   *)
(* provider-response parsing of src/src/scorer.py and src/src/generator.py,*)
(* the markdown log writer of src/src/output.py, the feed reader of        *)
(* src/src/fetcher.py and the scheduler of src/scheduler.py.               *)
(*                                                                         *)
(* Texts are modelled line by line: a text is a non-empty sequence of      *)
(* lines (what str.split("\n") returns) and a line is the sequence of the  *)
(* fragments an f-string concatenates, so the empty line is << >> and the  *)
(* empty text is << << >> >>.                                              *)
(***************************************************************************)
EXTENDS Integers, Sequences, FiniteSets, TLC

VARIABLES
    w,      \* the pipeline's world: record store, output files, the running run_pipeline call
    tw,     \* a second world fed the same inputs as w, run with dry_run = FALSE
    call,   \* one call of score_article / generate_content: its response text and its result
    sb,     \* one SilverBulletOutput: its three files and the log of append_content calls
    fgen,   \* one fetch_all_feeds generator: the feeds read so far and what it has yielded
    sch,    \* the scheduler of scheduler.py and the curator process it starts
    co      \* for two runs in progress at once: the URLs each has scored and appended

vars == <<w, tw, call, sb, fgen, sch, co>>

------------------------------------------------------------------------------
(* Bounds of the model *)

MaxRuns == 2        \* pipeline runs in one behaviour
MaxBudget == 1      \* max_articles is drawn from 0 .. MaxBudget
MaxAppends == 3     \* append_content calls on one SilverBulletOutput
MaxFeeds == 3       \* configured feeds
MaxEntries == 2     \* entries in one feed document
MaxClock == 130     \* minutes of scheduler time

Urls == {"u1", "u2"}
ScoreValues == {0, 1, 2}         \* scores a provider may return (it is not held to 1..10)
Thresholds == {1, 2}             \* values of --score-high / --score-medium

------------------------------------------------------------------------------
(* Texts *)

EmptyLine == << >>
EmptyText == << EmptyLine >>

\* s + t on strings: the last line of s and the first line of t become one line
Concat(s, t) ==
    SubSeq(s, 1, Len(s) - 1) \o << s[Len(s)] \o t[1] >> \o SubSeq(t, 2, Len(t))

\* "\n".join(lines) of a list of lines; the join of no line is the empty string
Join(lines) == IF lines = << >> THEN EmptyText ELSE lines

\* the text "\n"
Newline == << EmptyLine, EmptyLine >>

\* line.startswith(prefix), for a prefix that is a whole fragment
StartsWith(line, prefix) == Len(line) > 0 /\ line[1] = prefix

RECURSIVE DropLeadingBlank(_)
DropLeadingBlank(s) ==
    IF Len(s) > 1 /\ s[1] = EmptyLine THEN DropLeadingBlank(Tail(s)) ELSE s

RECURSIVE DropTrailingBlank(_)
DropTrailingBlank(s) ==
    IF Len(s) > 1 /\ s[Len(s)] = EmptyLine
    THEN DropTrailingBlank(SubSeq(s, 1, Len(s) - 1)) ELSE s

\* str.strip(): no fragment of the model is white space, so it removes the
\* blank lines at both ends
Strip(s) == DropTrailingBlank(DropLeadingBlank(s))

------------------------------------------------------------------------------
(* src/src/output.py: the markdown logs *)

None == "<None>"              \* Python's None, where a string is expected
Truthy(x) == x /= None /\ x /= ""     \* the test  if x:  on an Optional[str]

Categories == {"ready", "review", "archive"}
NoFile == << >>               \* the file does not exist (a text has at least one line)
Fence == "~~~"                \* the code fence, three backquotes
Timestamp == "now"            \* datetime.now().strftime(...), one value per behaviour

TitleOf(url) == IF url = "u1" THEN "t1" ELSE IF url = "u2" THEN "t2" ELSE "t3"
SourceOf(url) == "feed"

\* (a variant that files the review category with the ready one)
FileOfReviewAsReady(category) ==
    CASE category = "ready" -> "ReadyToPost"
      [] category = "review" -> "ReadyToPost"
      [] category = "archive" -> "Archive"
      [] OTHER -> "Other"

\* filename_map.get(category, "Content/Other.md")
FileOf(category) ==
    CASE category = "ready" -> "ReadyToPost"
      [] category = "review" -> "NeedsReview"
      [] category = "archive" -> "Archive"
      [] OTHER -> "Other"

FileNames == {"ReadyToPost", "NeedsReview", "Archive", "Other"}
OutputRoot == [f \in FileNames |-> NoFile]

\* _read_existing
ReadExisting(files, f) == IF files[f] /= NoFile THEN files[f] ELSE EmptyText

HeaderTitle(category) ==
    CASE category = "ready" -> "Ready to Post"
      [] category = "review" -> "Needs Review"
      [] category = "archive" -> "Archive"
      [] OTHER -> "Content"

\* _get_header
GetHeader(category) ==
    << <<"---">>, <<"title: ", HeaderTitle(category)>>, <<"tags: #content #bitcoin">>,
       <<"---">>, EmptyLine, EmptyLine >>

\* _format_entry
FormatEntry(e) ==
    LET head == << EmptyLine, <<"## ", e.title>>, EmptyLine,
                   <<"**Source:** ", e.source, " | **Score:** ", ToString(e.score),
                     "/10 | **Added:** ", Timestamp>>,
                   <<"**Link:** ", e.url>>, <<"**Why:** ", e.score_reason>>, EmptyLine >>
        t1 == IF Truthy(e.tweet)
              THEN Concat(head, << EmptyLine, <<"### Tweet">>, <<Fence>>, <<e.tweet>>,
                                   <<Fence>>, EmptyLine >>)
              ELSE head
        t2 == IF Truthy(e.thread)
              THEN Concat(t1, << EmptyLine, <<"### Thread">>, <<Fence>>, <<e.thread>>,
                                 <<Fence>>, EmptyLine >>)
              ELSE t1
        t3 == IF Truthy(e.linkedin)
              THEN Concat(t2, << EmptyLine, <<"### LinkedIn">>, <<e.linkedin>>, EmptyLine >>)
              ELSE t2
    IN Concat(t3, << EmptyLine, <<"---">>, EmptyLine >>)

\* (a variant whose search does not skip the first line)
HeaderEndFromFirstLine(lines) ==
    LET hits == {i \in 1..Len(lines) : StartsWith(lines[i], "---")}
    IN IF hits = {} THEN 0 ELSE CHOOSE i \in hits : \A j \in hits : i <= j

\* the loop of lines 95-99: the number of lines up to and including the first
\* line after the first that starts with "---"; 0 when there is none
HeaderEnd(lines) ==
    LET hits == {i \in 2..Len(lines) : StartsWith(lines[i], "---")}
    IN IF hits = {} THEN 0 ELSE CHOOSE i \in hits : \A j \in hits : i <= j

\* (a variant that writes no second entry for a URL the file already links)
AppendContentOncePerUrl(files, category, e, prepend) ==
    LET f == FileOf(category)
        read == ReadExisting(files, f)
        existing == IF read = EmptyText THEN GetHeader(category) ELSE read
        header_end == HeaderEnd(existing)
        header_part == Join(SubSeq(existing, 1, header_end))
        content_part == Join(SubSeq(existing, header_end + 1, Len(existing)))
        new_content ==
            Concat(Concat(Concat(Concat(header_part, Newline), FormatEntry(e)), Newline),
                   content_part)
    IN IF \E i \in 1..Len(read) : read[i] = <<"**Link:** ", e.url>>
       THEN files
       ELSE [files EXCEPT ![f] = Concat(Strip(new_content), Newline)]

\* append_content
AppendContent(files, category, e, prepend) ==
    LET f == FileOf(category)
        entry == FormatEntry(e)
        read == ReadExisting(files, f)
        existing == IF read = EmptyText THEN GetHeader(category) ELSE read
        lines == existing
        header_end == HeaderEnd(lines)
        header_part == Join(SubSeq(lines, 1, header_end))
        content_part == Join(SubSeq(lines, header_end + 1, Len(lines)))
        new_content ==
            IF prepend
            THEN Concat(Concat(Concat(Concat(header_part, Newline), entry), Newline),
                        content_part)
            ELSE Concat(Concat(existing, Newline), entry)
    IN [files EXCEPT ![f] = Concat(Strip(new_content), Newline)]

\* (a variant that appends at the end of the file)
WriteAtEnd(files, category, e) == AppendContent(files, category, e, FALSE)

\* write_to_silverbullet: append_content with prepend left at its default
WriteToSilverbullet(files, category, e) == AppendContent(files, category, e, TRUE)

------------------------------------------------------------------------------
(* The inference provider's answers.  A response text is a sequence of     *)
(* lines; a line is a code fence or carries a JSON-shaped payload.         *)

Absent == "<absent>"          \* the key is not in the JSON object

\* the value under "score": a number, a numeric string, another string, null, or no key
ScoreFields ==
    [k : {"num", "numstr"}, v : ScoreValues] \cup [k : {"str", "null", "absent"}, v : {0}]

\* what the provider may answer a scoring prompt with
ScorePayloads ==
    [kind : {"object"}, score : ScoreFields, reason : {Absent, "r"},
     rel : {Absent, "true", "false"}]
    \cup [kind : {"garbage", "array", "number"}, score : {[k |-> "absent", v |-> 0]},
          reason : {Absent}, rel : {Absent}]

\* what the provider may answer a generation prompt with
GenPayloads ==
    [kind : {"object"}, tweet : {Absent, "", "tw"}, thread : {Absent, "", "th"},
     linkedin : {Absent, "", "li"}]
    \cup [kind : {"garbage", "array", "number"}, tweet : {Absent}, thread : {Absent},
          linkedin : {Absent}]

FenceLine == [fence |-> TRUE, json |-> 0]
JsonLine(p) == [fence |-> FALSE, json |-> p]

\* a payload bare, inside a closed code fence, and inside a fence that is
\* never closed (an answer cut at max_tokens)
TextsOf(payloads) ==
    UNION {{ <<JsonLine(p)>>, <<FenceLine, JsonLine(p), FenceLine>>, <<FenceLine, JsonLine(p)>> }
           : p \in payloads}

ScoreTexts == TextsOf(ScorePayloads)
GenTexts == TextsOf(GenPayloads)

\* the answers the pipeline's runs are given: one of each kind of outcome
\* (a score with either flag, an unparsable text, the two shapes that raise)
RunScoreTexts ==
    {t \in ScoreTexts :
        LET p == t[Len(t)].json
        IN /\ Len(t) = 1
           /\ p.kind \in {"object", "garbage", "array"}
           /\ p.kind = "object" =>
                 /\ p.reason = "r" /\ p.rel /= Absent
                 /\ p.score.k \in {"num", "str"}}

\* all three variants, none, the tweet alone; an unparsable text; an array
RunGenTexts ==
    {t \in GenTexts :
        LET p == t[Len(t)].json
        IN /\ Len(t) = 1
           /\ p.kind \in {"object", "garbage", "array"}
           /\ p.kind = "object" =>
                 /\ p.tweet /= Absent /\ p.thread /= Absent
                 /\ p.linkedin = (IF p.thread = "" THEN Absent ELSE "li")
                 /\ p.thread = "th" => p.tweet = "tw"}

\* lines 74-76 of scorer.py, 77-79 of generator.py: if text.startswith(fence),
\* the first and the last line are dropped
StripFence(text) ==
    IF text[1].fence THEN SubSeq(text, 2, Len(text) - 1) ELSE text

\* json.loads: one line holding a JSON value parses; anything else is a JSONDecodeError
JsonLoads(text) ==
    IF Len(text) = 1 /\ ~text[1].fence /\ text[1].json.kind /= "garbage"
    THEN [ok |-> TRUE, data |-> text[1].json]
    ELSE [ok |-> FALSE, data |-> 0]

\* float(x) of the value under "score" (1 when the key is absent)
Float(field) ==
    CASE field.k = "absent" -> [raised |-> "none", v |-> 1]
      [] field.k = "num" -> [raised |-> "none", v |-> field.v]
      [] field.k = "numstr" -> [raised |-> "none", v |-> field.v]
      [] field.k = "str" -> [raised |-> "ValueError", v |-> 0]
      [] field.k = "null" -> [raised |-> "TypeError", v |-> 0]

\* exceptions the except clause of score_article / generate_content catches
Caught == {"JSONDecodeError", "KeyError", "TypeError"}

ScoreResult(score, reason, relevant) ==
    [raised |-> "none", score |-> score, reason |-> reason, is_bitcoin_relevant |-> relevant]
ScoreRaised(exc) ==
    [raised |-> exc, score |-> 0, reason |-> None, is_bitcoin_relevant |-> FALSE]
FailedToParse == ScoreResult(1, "Failed to parse", FALSE)

\* the try block of score_article: the exception it ends with ("none": it returns)
ScoreTry(text) ==
    LET parsed == JsonLoads(StripFence(text))
        data == parsed.data
    IN IF ~parsed.ok THEN ScoreRaised("JSONDecodeError")
       ELSE IF data.kind /= "object" THEN ScoreRaised("AttributeError")
       ELSE IF Float(data.score).raised /= "none" THEN ScoreRaised(Float(data.score).raised)
       ELSE ScoreResult(Float(data.score).v,
                        IF data.reason = Absent THEN "No reason provided" ELSE data.reason,
                        data.rel = "true")

\* score_article, given the provider's response text
score_article(text) ==
    LET r == ScoreTry(text)
    IN IF r.raised \in Caught THEN FailedToParse ELSE r

GeneratedContent(tweet, thread, linkedin) ==
    [raised |-> "none", tweet |-> tweet, thread |-> thread, linkedin |-> linkedin]
GenRaised(exc) == [raised |-> exc, tweet |-> None, thread |-> None, linkedin |-> None]

\* data.get(key, "")
GetOrEmpty(v) == IF v = Absent THEN "" ELSE v

GenTry(text) ==
    LET parsed == JsonLoads(StripFence(text))
        data == parsed.data
    IN IF ~parsed.ok THEN GenRaised("JSONDecodeError")
       ELSE IF data.kind /= "object" THEN GenRaised("AttributeError")
       ELSE GeneratedContent(GetOrEmpty(data.tweet), GetOrEmpty(data.thread),
                             GetOrEmpty(data.linkedin))

\* generate_content, given the provider's response text
generate_content(text) ==
    LET r == GenTry(text)
    IN IF r.raised \in Caught THEN GeneratedContent("", "", "") ELSE r

------------------------------------------------------------------------------
(* src/src/database.py: the record store.  The articles table is the       *)
(* sequence of its rows, a row's id its position (AUTOINCREMENT, no row is *)
(* ever deleted); a nullable column holds << >> for NULL or <<v>>.         *)

Null == << >>

\* hashlib.sha256(url.encode()).hexdigest(), as two parts: its first 16 hex
\* digits and the rest.  URLs are unbounded strings and there are 2^64 first
\* parts, so some URLs share theirs: u1c stands for a URL whose digest begins
\* as that of u1 does
Sha256(url) ==
    CASE url = "u1" -> <<"9c1f", "a0">>
      [] url = "u2" -> <<"27e4", "b1">>
      [] url = "u1c" -> <<"9c1f", "d3">>
      [] OTHER -> <<"f00d", "c2">>

\* url_hash: hexdigest()[:16]
url_hash(url) == Sha256(url)[1]

\* (a variant that looks the raw URL up in the url_hash column)
ArticleExistsByUrl(articles, url) ==
    \E i \in 1..Len(articles) : articles[i].url_hash = url

\* (a variant that does not count a record that is still 'new')
ArticleExistsScored(articles, url) ==
    \E i \in 1..Len(articles) :
        articles[i].url_hash = url_hash(url) /\ articles[i].status /= "new"

\* (a variant that compares whole digests)
ArticleExistsByDigest(articles, url) ==
    \E i \in 1..Len(articles) : Sha256(articles[i].url) = Sha256(url)

\* article_exists: SELECT 1 FROM articles WHERE url_hash = ?
article_exists(articles, url) ==
    \E i \in 1..Len(articles) : articles[i].url_hash = url_hash(url)

\* (a variant whose table has no UNIQUE constraint)
InsertArticleNoUnique(articles, url, title) ==
    [raised |-> "none",
     articles |-> Append(articles,
                         [url_hash |-> url_hash(url), url |-> url, title |-> title,
                          score |-> Null, score_reason |-> Null, status |-> "new"]),
     id |-> Len(articles) + 1]

\* insert_article: the row has status 'new' (the column default) and NULL score;
\* the UNIQUE constraint on url_hash makes the INSERT raise IntegrityError
insert_article(articles, url, title) ==
    IF \E i \in 1..Len(articles) : articles[i].url_hash = url_hash(url)
    THEN [raised |-> "IntegrityError", articles |-> articles, id |-> 0]
    ELSE [raised |-> "none",
          articles |-> Append(articles,
                              [url_hash |-> url_hash(url), url |-> url, title |-> title,
                               score |-> Null, score_reason |-> Null, status |-> "new"]),
          id |-> Len(articles) + 1]

\* (a variant whose UPDATE has no WHERE clause)
UpdateScoreEveryRow(articles, id, score, reason, status) ==
    [i \in 1..Len(articles) |->
        [articles[i] EXCEPT !.score = <<score>>, !.score_reason = <<reason>>,
                            !.status = status]]

\* update_score: UPDATE articles SET score, score_reason, status WHERE id = ?
update_score(articles, id, score, reason, status) ==
    [i \in 1..Len(articles) |->
        IF i = id
        THEN [articles[i] EXCEPT !.score = <<score>>, !.score_reason = <<reason>>,
                                 !.status = status]
        ELSE articles[i]]

\* insert_content: one more row of generated_content
insert_content(rows, id, content_type, content) ==
    Append(rows, [article_id |-> id, content_type |-> content_type, content |-> content])

------------------------------------------------------------------------------
(* src/src/fetcher.py: fetch_all_feeds is a generator, so the feeds are   *)
(* read as the pipeline pulls: the model draws the next feed entry at each *)
(* pull and keeps the generator's seen_urls.                               *)

EndOfFeeds == "<end>"        \* the last feed has no further entry

\* lines 89-93: an entry is yielded unless its URL was seen in this run
fetch_all_feeds(seen_urls, url) ==
    IF url \notin seen_urls
    THEN [yields |-> TRUE, seen_urls |-> seen_urls \cup {url}]
    ELSE [yields |-> FALSE, seen_urls |-> seen_urls]

\* what feedparser gives for an entry, as far as fetch_feed reads it: its link
\* ("" when it has none) and what date_parser.parse makes of its published
\* date: a date, a ValueError, or an error the inner except does not name
FeedEntries ==
    [link : Urls, published : {"date", "overflow"}]
    \cup {[link |-> "u1", published |-> "invalid"], [link |-> "", published |-> "date"]}

RECURSIVE SeqsUpTo(_, _)
SeqsUpTo(S, n) ==
    IF n = 0 THEN {<< >>}
    ELSE LET shorter == SeqsUpTo(S, n - 1)
         IN shorter \cup {Append(q, e) : q \in {r \in shorter : Len(r) = n - 1}, e \in S}

\* what a feed endpoint may answer: httpx.get raises (unreachable, timeout), or
\* a document in which feedparser finds up to MaxEntries entries
FeedResponses ==
    {[fetch |-> "raises", entries |-> << >>]}
    \cup {[fetch |-> "ok", entries |-> q] : q \in SeqsUpTo(FeedEntries, MaxEntries)}

\* lines 35-73: the loop over the entries; articles is the list built so far
\* and the result says whether an exception ended the loop
RECURSIVE ParseEntries(_, _)
ParseEntries(entries, articles) ==
    IF entries = << >> THEN [raised |-> "none", articles |-> articles]
    ELSE LET entry == Head(entries)
         IN IF entry.link = "" THEN ParseEntries(Tail(entries), articles)
            ELSE IF entry.published = "overflow"
            THEN [raised |-> "OverflowError", articles |-> articles]
            ELSE ParseEntries(Tail(entries), Append(articles, entry.link))

\* lines 25-73: the try block of fetch_feed
FetchTry(feed) ==
    IF feed.fetch = "raises" THEN [raised |-> "ConnectError", articles |-> << >>]
    ELSE ParseEntries(feed.entries, << >>)

\* (a variant without the except clause of line 75)
FetchFeedUncaught(feed) ==
    LET r == FetchTry(feed)
    IN [raised |-> r.raised, logged |-> FALSE, articles |-> r.articles]

\* fetch_feed: whatever the try block raised is caught and printed, and the
\* list is returned as it was when the exception came
fetch_feed(feed) ==
    LET r == FetchTry(feed)
    IN [raised |-> "none", logged |-> r.raised /= "none", articles |-> r.articles]

\* a fetch_all_feeds generator before its first next(): i feeds have been
\* fetched, articles[1..j] of the feed in hand have been gone through
Generator0 ==
    [pc |-> "next_feed", i |-> 0, feed |-> [fetch |-> "ok", entries |-> << >>],
     logged |-> FALSE, articles |-> << >>, j |-> 0, seen_urls |-> {},
     yielded |-> << >>, last_failed |-> 0]

\* lines 85-87: the next configured feed is fetched; an exception leaving
\* fetch_feed would leave the generator too
FetchNextFeed(g, feed) ==
    LET r == fetch_feed(feed)
    IN IF r.raised /= "none" THEN [g EXCEPT !.pc = "aborted", !.i = @ + 1, !.feed = feed]
       ELSE [g EXCEPT !.pc = "iterating", !.i = @ + 1, !.feed = feed,
                      !.logged = r.logged, !.articles = r.articles, !.j = 0,
                      !.last_failed = IF r.logged THEN g.i + 1 ELSE @]

\* lines 89-93: the next article of the feed in hand; it is yielded unless its
\* URL was yielded before.  After the last one the outer loop goes on
NextArticle(g) ==
    IF g.j = Len(g.articles)
    THEN [g EXCEPT !.pc = IF g.i = MaxFeeds THEN "exhausted" ELSE "next_feed"]
    ELSE LET url == g.articles[g.j + 1]
             r == fetch_all_feeds(g.seen_urls, url)
         IN [g EXCEPT !.j = @ + 1, !.seen_urls = r.seen_urls,
                      !.yielded = IF r.yields THEN Append(@, [url |-> url, feed |-> g.i])
                                  ELSE @]

------------------------------------------------------------------------------
(* src/src/pipeline.py: run_pipeline, one step per blocking call.  A world *)
(* is the record store, the output files and the state of the run in       *)
(* progress; the step operators map a world to the next one.               *)

Configs ==
    [score_high : Thresholds, score_medium : Thresholds, max_articles : 0..MaxBudget,
     dry_run : BOOLEAN]

ZeroStats ==
    [fetched |-> 0, new |-> 0, skipped_duplicate |-> 0, scored |-> 0, generated |-> 0,
     ready |-> 0, review |-> 0, archive |-> 0]

NoArticle == ""
NoScore == ScoreResult(0, None, FALSE)
NoContent == [tweet |-> None, thread |-> None, linkedin |-> None]

\* the locals of the loop body, as they are between two articles (article, the
\* loop variable, is cleared where the article's iteration ends)
ClearLocals(wd) ==
    [wd EXCEPT !.article_id = 0, !.score_result = NoScore,
               !.category = None, !.status = None, !.content = NoContent]

\* before the first run: an empty store, no output file
World0 ==
    [pc |-> "idle", runs |-> 0, raised |-> "none",
     cfg |-> [score_high |-> 2, score_medium |-> 1, max_articles |-> 0, dry_run |-> FALSE],
     seen_urls |-> {}, stats |-> ZeroStats, processed |-> 0,
     article |-> NoArticle, article_id |-> 0, score_result |-> NoScore,
     category |-> None, status |-> None, content |-> NoContent,
     api |-> [score |-> 0, generate |-> 0],
     start |-> [articles |-> << >>, generated_content |-> << >>, files |-> OutputRoot],
     articles |-> << >>, generated_content |-> << >>, files |-> OutputRoot]

\* lines 37-54: a call of run_pipeline begins.  api counts the provider calls
\* of the run, start is the store and the files as the run found them
StartRun(wd, cfg) ==
    [ClearLocals(wd) EXCEPT
        !.pc = "fetch", !.runs = @ + 1, !.raised = "none", !.cfg = cfg,
        !.article = NoArticle,
        !.seen_urls = {}, !.stats = ZeroStats, !.processed = 0,
        !.api = [score |-> 0, generate |-> 0],
        !.start = [articles |-> wd.articles, generated_content |-> wd.generated_content,
                   files |-> wd.files]]

\* lines 157-169: the loop is left, the connection closed, stats returned
Finish(wd) == [ClearLocals(wd) EXCEPT !.pc = "done", !.seen_urls = {}, !.processed = 0]

\* an exception leaves run_pipeline
Crash(wd, exc) ==
    [ClearLocals(wd) EXCEPT !.pc = "crashed", !.raised = exc, !.seen_urls = {},
                            !.processed = 0]

\* line 66: the run's budget is used up
BudgetExhaustedAfter(processed, max_articles) == processed > max_articles
BudgetExhaustedUnlessZero(processed, max_articles) ==
    max_articles > 0 /\ processed >= max_articles

BudgetExhausted(processed, max_articles) == processed >= max_articles

\* (a variant that takes an article already in the store in hand again)
PullArticleAgain(wd, entry) ==
    IF entry = EndOfFeeds THEN Finish([wd EXCEPT !.article = NoArticle])
    ELSE LET gen == fetch_all_feeds(wd.seen_urls, entry)
             url == entry
             new == [wd EXCEPT !.seen_urls = gen.seen_urls, !.article = url,
                               !.stats.fetched = @ + 1, !.stats.new = @ + 1]
             ins == insert_article(wd.articles, url, TitleOf(url))
         IN IF ~gen.yields THEN wd
            ELSE IF BudgetExhausted(new.processed, new.cfg.max_articles) THEN Finish(new)
            ELSE IF ins.raised /= "none"
            THEN [new EXCEPT !.processed = @ + 1, !.pc = "inserted",
                             !.article_id = CHOOSE i \in 1..Len(wd.articles) :
                                                wd.articles[i].url_hash = url_hash(url)]
            ELSE [new EXCEPT !.processed = @ + 1, !.pc = "inserted",
                             !.article_id = ins.id, !.articles = ins.articles]

\* lines 55-80: the next article is pulled from fetch_all_feeds, checked
\* against the store, counted against the budget and inserted; entry is what
\* the feeds hold next
PullArticle(wd, entry) ==
    IF entry = EndOfFeeds THEN Finish([wd EXCEPT !.article = NoArticle])
    ELSE LET gen == fetch_all_feeds(wd.seen_urls, entry)
             url == entry
             pulled == [wd EXCEPT !.seen_urls = gen.seen_urls, !.article = url,
                                  !.stats.fetched = @ + 1]
         IN IF ~gen.yields THEN wd
            ELSE IF article_exists(wd.articles, url)
            THEN [pulled EXCEPT !.stats.skipped_duplicate = @ + 1, !.article = NoArticle]
            ELSE LET new == [pulled EXCEPT !.stats.new = @ + 1]
                     ins == insert_article(wd.articles, url, TitleOf(url))
                 IN IF BudgetExhausted(new.processed, new.cfg.max_articles) THEN Finish(new)
                    ELSE IF ins.raised /= "none" THEN Crash(new, ins.raised)
                    ELSE [new EXCEPT !.processed = @ + 1, !.pc = "inserted",
                                     !.article_id = ins.id,
                                     !.articles = ins.articles]

\* lines 55-71, for runs that share the store with another process: the pull
\* up to the budget check, before insert_article is called
CheckArticle(wd, entry) ==
    IF entry = EndOfFeeds THEN Finish([wd EXCEPT !.article = NoArticle])
    ELSE LET gen == fetch_all_feeds(wd.seen_urls, entry)
             url == entry
             pulled == [wd EXCEPT !.seen_urls = gen.seen_urls, !.article = url,
                                  !.stats.fetched = @ + 1]
         IN IF ~gen.yields THEN wd
            ELSE IF article_exists(wd.articles, url)
            THEN [pulled EXCEPT !.stats.skipped_duplicate = @ + 1, !.article = NoArticle]
            ELSE LET new == [pulled EXCEPT !.stats.new = @ + 1]
                 IN IF BudgetExhausted(new.processed, new.cfg.max_articles) THEN Finish(new)
                    ELSE [new EXCEPT !.processed = @ + 1, !.pc = "checked"]

\* lines 73-80: the insert_article call on the store as it is by then
InsertStep(wd) ==
    LET ins == insert_article(wd.articles, wd.article, TitleOf(wd.article))
    IN IF ins.raised /= "none" THEN Crash(wd, ins.raised)
       ELSE [wd EXCEPT !.pc = "inserted", !.article_id = ins.id, !.articles = ins.articles]

\* lines 82-93: the scoring call, given the provider's response text
ScoreStep(wd, text) ==
    LET r == score_article(text)
        called == [wd EXCEPT !.api.score = @ + 1]
    IN IF r.raised /= "none" THEN Crash(called, r.raised)
       ELSE [called EXCEPT !.score_result = r, !.stats.scored = @ + 1, !.pc = "scored"]

\* lines 96-107: the category of a score
CategoryOfStrict(score, score_high, score_medium) ==
    IF score > score_high THEN "ready"
    ELSE IF score > score_medium THEN "review"
    ELSE "archive"

CategoryOf(score, score_high, score_medium) ==
    IF score >= score_high THEN "ready"
    ELSE IF score >= score_medium THEN "review"
    ELSE "archive"

\* lines 98, 102, 106: the status a category is persisted as
StatusOf(category) == IF category = "archive" THEN "archived" ELSE category

\* (a variant that does not count the category)
CategorizeUncounted(wd) ==
    LET category == CategoryOf(wd.score_result.score, wd.cfg.score_high,
                               wd.cfg.score_medium)
        status == StatusOf(category)
    IN [wd EXCEPT !.category = category, !.status = status,
                  !.articles = update_score(@, wd.article_id, wd.score_result.score,
                                            wd.score_result.reason, status),
                  !.pc = "categorized"]

\* (a variant that leaves update_score to a later step)
CategorizeUnpersisted(wd) ==
    LET category == CategoryOf(wd.score_result.score, wd.cfg.score_high,
                               wd.cfg.score_medium)
    IN [wd EXCEPT !.category = category, !.status = StatusOf(category),
                  !.stats[category] = @ + 1, !.pc = "categorized"]

\* lines 95-110: the category is assigned and the score persisted
Categorize(wd) ==
    LET category == CategoryOf(wd.score_result.score, wd.cfg.score_high,
                               wd.cfg.score_medium)
        status == StatusOf(category)
    IN [wd EXCEPT !.category = category, !.status = status,
                  !.stats[category] = @ + 1,
                  !.articles = update_score(@, wd.article_id, wd.score_result.score,
                                            wd.score_result.reason, status),
                  !.pc = "categorized"]

\* line 114: whether content is generated
GenerationGateNoRelevance(score_result, score_medium) ==
    score_result.score >= score_medium

GenerationGate(score_result, score_medium) ==
    score_result.score >= score_medium /\ score_result.is_bitcoin_relevant

\* (a variant that stores thread and linkedin only beside a tweet)
StoreContentNested(rows, id, c) ==
    IF Truthy(c.tweet)
    THEN LET r1 == insert_content(rows, id, "tweet", c.tweet)
             r2 == IF Truthy(c.thread) THEN insert_content(r1, id, "thread", c.thread) ELSE r1
         IN IF Truthy(c.linkedin) THEN insert_content(r2, id, "linkedin", c.linkedin) ELSE r2
    ELSE rows

\* lines 131-137: one row per variant that is not empty
StoreContent(rows, id, c) ==
    LET r1 == IF Truthy(c.tweet) THEN insert_content(rows, id, "tweet", c.tweet) ELSE rows
        r2 == IF Truthy(c.thread) THEN insert_content(r1, id, "thread", c.thread) ELSE r1
    IN IF Truthy(c.linkedin) THEN insert_content(r2, id, "linkedin", c.linkedin) ELSE r2

\* lines 112-137: the generation call, given the provider's response text
\* (the text is not read when the gate is closed)
GenerateStep(wd, text) ==
    IF GenerationGate(wd.score_result, wd.cfg.score_medium)
    THEN LET c == generate_content(text)
             called == [wd EXCEPT !.api.generate = @ + 1]
         IN IF c.raised /= "none" THEN Crash(called, c.raised)
            ELSE [called EXCEPT
                    !.stats.generated = @ + 1,
                    !.content = [tweet |-> c.tweet, thread |-> c.thread,
                                 linkedin |-> c.linkedin],
                    !.generated_content = StoreContent(@, wd.article_id, c),
                    !.pc = "generated"]
    ELSE [wd EXCEPT !.content = NoContent, !.pc = "generated"]

\* the arguments of write_to_silverbullet, lines 142-153
EntryOf(wd) ==
    [title |-> TitleOf(wd.article), url |-> wd.article, source |-> SourceOf(wd.article),
     score |-> wd.score_result.score, score_reason |-> wd.score_result.reason,
     tweet |-> wd.content.tweet, thread |-> wd.content.thread,
     linkedin |-> wd.content.linkedin]

\* lines 139-155: the entry is written unless the run is a dry run; the loop
\* goes on to the next article
WriteStepTwice(wd) ==
    LET once == WriteToSilverbullet(wd.files, wd.category, EntryOf(wd))
    IN [ClearLocals(wd) EXCEPT
          !.files = IF wd.cfg.dry_run THEN wd.files
                    ELSE WriteToSilverbullet(once, wd.category, EntryOf(wd)),
          !.article = NoArticle, !.pc = "fetch"]

WriteStepAlways(wd) ==
    [ClearLocals(wd) EXCEPT
        !.files = WriteToSilverbullet(wd.files, wd.category, EntryOf(wd)),
        !.article = NoArticle, !.pc = "fetch"]

WriteStep(wd) ==
    IF ~wd.cfg.dry_run
    THEN [ClearLocals(wd) EXCEPT
            !.files = WriteToSilverbullet(wd.files, wd.category, EntryOf(wd)),
            !.article = NoArticle, !.pc = "fetch"]
    ELSE [ClearLocals(wd) EXCEPT !.article = NoArticle, !.pc = "fetch"]

------------------------------------------------------------------------------
(* The pipeline: runs of run_pipeline, one after the other, on one store   *)

NoCall == [fn |-> "none", text |-> << >>, done |-> FALSE,
           score |-> NoScore, content |-> GeneratedContent(None, None, None)]
NoSb == [files |-> OutputRoot, log |-> [c \in Categories |-> << >>]]
NoGen == [pc |-> "unused"]
NoSch == [pc |-> "unused"]
NoCo == [scored |-> <<{}, {}>>, appended |-> <<{}, {}>>]

Init == w = World0 /\ tw = World0 /\ call = NoCall /\ sb = NoSb /\ fgen = NoGen /\ sch = NoSch /\ co = NoCo

Begin ==
    /\ w.pc \in {"idle", "done", "crashed"}
    /\ w.runs < MaxRuns
    /\ \E cfg \in Configs : w' = StartRun(w, cfg)
    /\ UNCHANGED <<tw, call, sb, fgen, sch, co>>

Pull ==
    /\ w.pc = "fetch"
    /\ \E entry \in Urls \cup {EndOfFeeds} : w' = PullArticle(w, entry)
    /\ UNCHANGED <<tw, call, sb, fgen, sch, co>>

Score ==
    /\ w.pc = "inserted"
    /\ \E text \in RunScoreTexts : w' = ScoreStep(w, text)
    /\ UNCHANGED <<tw, call, sb, fgen, sch, co>>

Categorise ==
    /\ w.pc = "scored"
    /\ w' = Categorize(w)
    /\ UNCHANGED <<tw, call, sb, fgen, sch, co>>

Generate ==
    /\ w.pc = "categorized"
    /\ \E text \in RunGenTexts : w' = GenerateStep(w, text)
    /\ UNCHANGED <<tw, call, sb, fgen, sch, co>>

Write ==
    /\ w.pc = "generated"
    /\ w' = WriteStep(w)
    /\ UNCHANGED <<tw, call, sb, fgen, sch, co>>

Next == Begin \/ Pull \/ Score \/ Categorise \/ Generate \/ Write

Spec == Init /\ [][Next]_vars

------------------------------------------------------------------------------
(* Two worlds given the same feeds, the same provider answers and the same *)
(* configuration, but for dry_run: w runs with the flag as drawn, tw with  *)
(* dry_run = FALSE.                                                        *)

TwBegin ==
    /\ w.pc \in {"idle", "done", "crashed"} /\ tw.pc = w.pc
    /\ w.runs < MaxRuns
    /\ \E cfg \in Configs :
          /\ w' = StartRun(w, cfg)
          /\ tw' = StartRun(tw, [cfg EXCEPT !.dry_run = FALSE])
    /\ UNCHANGED <<call, sb, fgen, sch, co>>

TwPull ==
    /\ w.pc = "fetch" /\ tw.pc = "fetch"
    /\ \E entry \in Urls \cup {EndOfFeeds} :
          w' = PullArticle(w, entry) /\ tw' = PullArticle(tw, entry)
    /\ UNCHANGED <<call, sb, fgen, sch, co>>

TwScore ==
    /\ w.pc = "inserted" /\ tw.pc = "inserted"
    /\ \E text \in RunScoreTexts : w' = ScoreStep(w, text) /\ tw' = ScoreStep(tw, text)
    /\ UNCHANGED <<call, sb, fgen, sch, co>>

TwCategorise ==
    /\ w.pc = "scored" /\ tw.pc = "scored"
    /\ w' = Categorize(w) /\ tw' = Categorize(tw)
    /\ UNCHANGED <<call, sb, fgen, sch, co>>

TwGenerate ==
    /\ w.pc = "categorized" /\ tw.pc = "categorized"
    /\ \E text \in RunGenTexts : w' = GenerateStep(w, text) /\ tw' = GenerateStep(tw, text)
    /\ UNCHANGED <<call, sb, fgen, sch, co>>

TwWrite ==
    /\ w.pc = "generated" /\ tw.pc = "generated"
    /\ w' = WriteStep(w) /\ tw' = WriteStep(tw)
    /\ UNCHANGED <<call, sb, fgen, sch, co>>

TwNext == TwBegin \/ TwPull \/ TwScore \/ TwCategorise \/ TwGenerate \/ TwWrite

TwSpec == Init /\ [][TwNext]_vars

------------------------------------------------------------------------------
(* The pipeline when no run is given --dry-run: every run writes its       *)
(* entries.                                                                *)

NdBegin ==
    /\ w.pc \in {"idle", "done", "crashed"}
    /\ w.runs < MaxRuns
    /\ \E cfg \in Configs : ~cfg.dry_run /\ w' = StartRun(w, cfg)
    /\ UNCHANGED <<tw, call, sb, fgen, sch, co>>

NdNext == NdBegin \/ Pull \/ Score \/ Categorise \/ Generate \/ Write

NdSpec == Init /\ [][NdNext]_vars

------------------------------------------------------------------------------
(* Deduplication over feeds that also hold u1c: dry runs under one pair of *)
(* thresholds, every article scored 0 and flagged irrelevant.              *)

FeedUrls == Urls \cup {"u1c"}

DdBegin ==
    /\ w.pc \in {"idle", "done", "crashed"}
    /\ w.runs < MaxRuns
    /\ \E cfg \in Configs :
          /\ cfg.dry_run /\ cfg.score_high = 2 /\ cfg.score_medium = 1
          /\ w' = StartRun(w, cfg)
    /\ UNCHANGED <<tw, call, sb, fgen, sch, co>>

DdPull ==
    /\ w.pc = "fetch"
    /\ \E entry \in FeedUrls \cup {EndOfFeeds} : w' = PullArticle(w, entry)
    /\ UNCHANGED <<tw, call, sb, fgen, sch, co>>

DdScore ==
    /\ w.pc = "inserted"
    /\ \E text \in RunScoreTexts :
          /\ text[1].json.kind = "object"
          /\ text[1].json.score = [k |-> "num", v |-> 0]
          /\ text[1].json.rel = "false"
          /\ w' = ScoreStep(w, text)
    /\ UNCHANGED <<tw, call, sb, fgen, sch, co>>

DedupNext == DdBegin \/ DdPull \/ DdScore \/ Categorise \/ Generate \/ Write

DedupSpec == Init /\ [][DedupNext]_vars

------------------------------------------------------------------------------
(* One call of score_article or generate_content on any response text *)

ParseInit ==
    /\ w = World0 /\ tw = World0 /\ sb = NoSb /\ fgen = NoGen /\ sch = NoSch /\ co = NoCo
    /\ call \in {[NoCall EXCEPT !.fn = "score_article", !.text = t] : t \in ScoreTexts}
           \cup {[NoCall EXCEPT !.fn = "generate_content", !.text = t] : t \in GenTexts}

CallScoreArticle ==
    /\ call.fn = "score_article" /\ ~call.done
    /\ call' = [call EXCEPT !.score = score_article(call.text), !.done = TRUE]
    /\ UNCHANGED <<w, tw, sb, fgen, sch, co>>

CallGenerateContent ==
    /\ call.fn = "generate_content" /\ ~call.done
    /\ call' = [call EXCEPT !.content = generate_content(call.text), !.done = TRUE]
    /\ UNCHANGED <<w, tw, sb, fgen, sch, co>>

ParseNext == CallScoreArticle \/ CallGenerateContent

ParseSpec == ParseInit /\ [][ParseNext]_vars

------------------------------------------------------------------------------
(* append_content calls on one SilverBulletOutput whose files do not exist *)
(* at first; sb.log keeps, per category, the entries in the order of the   *)
(* calls.                                                                  *)

SbContents ==
    {NoContent, [tweet |-> "tw", thread |-> "th", linkedin |-> "li"],
     [tweet |-> "tw", thread |-> "", linkedin |-> None]}

SbEntries ==
    {[title |-> TitleOf(u), url |-> u, source |-> SourceOf(u), score |-> 1,
      score_reason |-> "r", tweet |-> c.tweet, thread |-> c.thread,
      linkedin |-> c.linkedin] : u \in Urls, c \in SbContents}

Appends(log) == Len(log["ready"]) + Len(log["review"]) + Len(log["archive"])

SbAppend ==
    /\ Appends(sb.log) < MaxAppends
    /\ \E category \in Categories, e \in SbEntries :
          sb' = [files |-> WriteToSilverbullet(sb.files, category, e),
                 log |-> [sb.log EXCEPT ![category] = Append(@, e)]]
    /\ UNCHANGED <<w, tw, call, fgen, sch, co>>

OutputNext == SbAppend

OutputSpec == Init /\ [][OutputNext]_vars

------------------------------------------------------------------------------
(* One fetch_all_feeds generator over MaxFeeds configured feeds, pulled to *)
(* its end; what a feed answers is drawn when it is fetched.               *)

FeedInit ==
    /\ w = World0 /\ tw = World0 /\ call = NoCall /\ sb = NoSb /\ sch = NoSch /\ co = NoCo
    /\ fgen = Generator0

FetchFeed ==
    /\ fgen.pc = "next_feed"
    /\ \E feed \in FeedResponses : fgen' = FetchNextFeed(fgen, feed)
    /\ UNCHANGED <<w, tw, call, sb, sch, co>>

YieldOrSkip ==
    /\ fgen.pc = "iterating"
    /\ fgen' = NextArticle(fgen)
    /\ UNCHANGED <<w, tw, call, sb, sch, co>>

FeedNext == FetchFeed \/ YieldOrSkip

FeedSpec == FeedInit /\ [][FeedNext]_vars

------------------------------------------------------------------------------
(* Two runs of run_pipeline in progress at once on one store and one       *)
(* output directory: run 1 is w, run 2 is tw.  Every store statement       *)
(* commits, so one run finds what the other has written so far; the check  *)
(* of article_exists and the insert are two statements.  Both runs write   *)
(* their entries, under one pair of thresholds; the provider returns a     *)
(* usable score, flagged relevant, and all three variants.                 *)

\* wd, finding the store and the files as the other run left them
Sees(wd, other) ==
    [wd EXCEPT !.articles = other.articles,
               !.generated_content = other.generated_content, !.files = other.files]

CoConfigs == {cfg \in Configs : ~cfg.dry_run /\ cfg.score_high = 2 /\ cfg.score_medium = 1}

CoScoreTexts ==
    {t \in RunScoreTexts :
        /\ t[1].json.kind = "object" /\ t[1].json.rel = "true"
        /\ t[1].json.score.k = "num" /\ t[1].json.score.v \in {0, 2}}

CoGenTexts ==
    {t \in RunGenTexts : t[1].json.kind = "object" /\ t[1].json.linkedin = "li"}

CoBegin ==
    /\ \E cfg \in CoConfigs :
          \/ w.pc = "idle" /\ w' = StartRun(w, cfg) /\ tw' = tw
          \/ tw.pc = "idle" /\ tw' = StartRun(tw, cfg) /\ w' = w
    /\ UNCHANGED <<call, sb, fgen, sch, co>>

CoCheck ==
    /\ \E entry \in Urls \cup {EndOfFeeds} :
          \/ w.pc = "fetch" /\ w' = CheckArticle(w, entry) /\ tw' = tw
          \/ tw.pc = "fetch" /\ tw' = CheckArticle(tw, entry) /\ w' = w
    /\ UNCHANGED <<call, sb, fgen, sch, co>>

CoInsert ==
    /\ \/ w.pc = "checked" /\ w' = InsertStep(w) /\ tw' = Sees(tw, w')
       \/ tw.pc = "checked" /\ tw' = InsertStep(tw) /\ w' = Sees(w, tw')
    /\ UNCHANGED <<call, sb, fgen, sch, co>>

CoScore ==
    /\ \E text \in CoScoreTexts :
          \/ /\ w.pc = "inserted" /\ w' = ScoreStep(w, text) /\ tw' = tw
             /\ co' = [co EXCEPT !.scored[1] = @ \cup {w.article}]
          \/ /\ tw.pc = "inserted" /\ tw' = ScoreStep(tw, text) /\ w' = w
             /\ co' = [co EXCEPT !.scored[2] = @ \cup {tw.article}]
    /\ UNCHANGED <<call, sb, fgen, sch>>

CoCategorise ==
    /\ \/ w.pc = "scored" /\ w' = Categorize(w) /\ tw' = Sees(tw, w')
       \/ tw.pc = "scored" /\ tw' = Categorize(tw) /\ w' = Sees(w, tw')
    /\ UNCHANGED <<call, sb, fgen, sch, co>>

CoGenerate ==
    /\ \E text \in CoGenTexts :
          \/ w.pc = "categorized" /\ w' = GenerateStep(w, text) /\ tw' = Sees(tw, w')
          \/ tw.pc = "categorized" /\ tw' = GenerateStep(tw, text) /\ w' = Sees(w, tw')
    /\ UNCHANGED <<call, sb, fgen, sch, co>>

CoWrite ==
    /\ \/ /\ w.pc = "generated" /\ w' = WriteStep(w) /\ tw' = Sees(tw, w')
          /\ co' = [co EXCEPT !.appended[1] = IF w.cfg.dry_run THEN @ ELSE @ \cup {w.article}]
       \/ /\ tw.pc = "generated" /\ tw' = WriteStep(tw) /\ w' = Sees(w, tw')
          /\ co' = [co EXCEPT !.appended[2] = IF tw.cfg.dry_run THEN @ ELSE @ \cup {tw.article}]
    /\ UNCHANGED <<call, sb, fgen, sch>>

CoNext == CoBegin \/ CoCheck \/ CoInsert \/ CoScore \/ CoCategorise \/ CoGenerate \/ CoWrite

ConcSpec == Init /\ [][CoNext]_vars

------------------------------------------------------------------------------
(* scheduler.py: main runs the curator once, registers run_curator with    *)
(* the schedule library and polls it once a minute.  Time is counted in    *)
(* minutes.  Of the schedule library the model takes: do() sets the job's  *)
(* next run to now + interval, run_pending() runs the job when that time   *)
(* has come and then sets the next run to now + interval again.            *)

RUN_INTERVAL_HOURS == 1
SleepSeconds == 60

Interval == RUN_INTERVAL_HOURS * 60      \* minutes between two scheduled runs
SleepMinutes == SleepSeconds \div 60

\* main has been entered (lines 41-43); no curator process exists.  caller is
\* the place run_curator was called from, last the outcome of the last call
Scheduler0 ==
    [pc |-> "main", caller |-> "none", clock |-> 0, next_run |-> 0,
     running |-> 0, started |-> 0, last |-> "none"]

\* run_curator is entered: lines 22-26
CallRunCurator(s, caller) == [s EXCEPT !.pc = "run_curator", !.caller = caller]

\* run_curator returns: to main, which registers the job (line 49), or to
\* run_pending, which sets the job's next run and returns to the loop's sleep
ReturnFromRunCurator(s) ==
    IF s.caller = "main"
    THEN [s EXCEPT !.pc = "loop", !.caller = "none", !.next_run = s.clock + Interval]
    ELSE [s EXCEPT !.pc = "sleep", !.caller = "none", !.next_run = s.clock + Interval]

\* (a variant that starts the process and does not wait for it)
PopenAndReturn(s, outcome) ==
    IF outcome = "OSError"
    THEN ReturnFromRunCurator([s EXCEPT !.last = "not started"])
    ELSE ReturnFromRunCurator([s EXCEPT !.running = @ + 1, !.started = @ + 1])

\* lines 28-37, up to where subprocess.run blocks: the process is started and
\* waited for, or it cannot be started and the exception is caught and printed
SubprocessRun(s, outcome) ==
    IF outcome = "OSError"
    THEN ReturnFromRunCurator([s EXCEPT !.last = "not started"])
    ELSE [s EXCEPT !.pc = "waiting", !.running = @ + 1, !.started = @ + 1]

\* a curator process exits with a return code; subprocess.run returns to a
\* scheduler that waits for it (lines 34-35 print a code that is not 0)
CuratorExits(s, returncode) ==
    LET exited == [s EXCEPT !.running = @ - 1,
                            !.last = IF returncode = 0 THEN "exit 0" ELSE "exit non-zero"]
    IN IF s.pc = "waiting" THEN ReturnFromRunCurator(exited) ELSE exited

\* line 52: schedule.run_pending()
RunPending(s) ==
    IF s.clock >= s.next_run THEN CallRunCurator(s, "run_pending")
    ELSE [s EXCEPT !.pc = "sleep"]

SchInit ==
    /\ w = World0 /\ tw = World0 /\ call = NoCall /\ sb = NoSb /\ fgen = NoGen /\ co = NoCo
    /\ sch = Scheduler0

\* line 46: the run at start-up
SchRunNow ==
    /\ sch.pc = "main"
    /\ sch' = CallRunCurator(sch, "main")
    /\ UNCHANGED <<w, tw, call, sb, fgen, co>>

SchSubprocessRun ==
    /\ sch.pc = "run_curator"
    /\ \E outcome \in {"started", "OSError"} : sch' = SubprocessRun(sch, outcome)
    /\ UNCHANGED <<w, tw, call, sb, fgen, co>>

SchCuratorExits ==
    /\ sch.running > 0
    /\ \E returncode \in {0, 1} : sch' = CuratorExits(sch, returncode)
    /\ UNCHANGED <<w, tw, call, sb, fgen, co>>

SchRunPending ==
    /\ sch.pc = "loop"
    /\ sch' = RunPending(sch)
    /\ UNCHANGED <<w, tw, call, sb, fgen, co>>

\* line 53: time.sleep(60)
SchSleep ==
    /\ sch.pc = "sleep" /\ sch.clock + SleepMinutes <= MaxClock
    /\ sch' = [sch EXCEPT !.pc = "loop", !.clock = @ + SleepMinutes]
    /\ UNCHANGED <<w, tw, call, sb, fgen, co>>

\* a minute passes while the scheduler waits in subprocess.run
SchWait ==
    /\ sch.pc = "waiting" /\ sch.clock < MaxClock
    /\ sch' = [sch EXCEPT !.clock = @ + 1]
    /\ UNCHANGED <<w, tw, call, sb, fgen, co>>

SchNext ==
    SchRunNow \/ SchSubprocessRun \/ SchCuratorExits \/ SchRunPending \/ SchSleep \/ SchWait

SchedSpec == SchInit /\ [][SchNext]_vars

------------------------------------------------------------------------------
(* Claims *)

\* the URL has an ArticleRecord
HasRecord(articles, url) == \E i \in 1..Len(articles) : articles[i].url = url

\* the step leaves the store, the output files and the provider alone
StoreAndOutputUnchanged ==
    /\ w'.articles = w.articles
    /\ w'.generated_content = w.generated_content
    /\ w'.files = w.files
    /\ w'.api = w.api

\* the step pulls an article from fetch_all_feeds
PullsArticle == w.pc = "fetch" /\ w'.stats.fetched = w.stats.fetched + 1

\* the URL of the article the step pulls: the one the loop still holds, or the
\* one the generator has just marked as seen
PulledUrl ==
    IF w'.article /= NoArticle THEN w'.article
    ELSE CHOOSE u \in w'.seen_urls : u \notin w.seen_urls

\* C1: over runs on one store, the store never holds two ArticleRecords for
\* one URL, and an article whose URL has an ArticleRecord when it is pulled is
\* counted as a duplicate: nothing is inserted, the provider is not called,
\* nothing is appended and the loop goes on to the next article
C1_DuplicateSkipped ==
    /\ [](\A i, j \in 1..Len(w.articles) :
             w.articles[i].url = w.articles[j].url => i = j)
    /\ [][(PullsArticle /\ HasRecord(w.articles, PulledUrl))
            => /\ w'.stats.skipped_duplicate = w.stats.skipped_duplicate + 1
               /\ w'.stats.new = w.stats.new
               /\ w'.pc = "fetch"
               /\ StoreAndOutputUnchanged]_vars

\* C1 witness: a later run has pulled a URL stored by an earlier run and
\* skipped it
C1_Witness ==
    /\ w.runs = 2 /\ w.pc = "fetch"
    /\ w.stats.skipped_duplicate = 1
    /\ \E u \in w.seen_urls : HasRecord(w.start.articles, u)

\* the status the claim gives a category
PersistedAs(category) ==
    CASE category = "ready" -> "ready"
      [] category = "review" -> "review"
      [] category = "archive" -> "archived"

\* C2: with score_high >= score_medium, an article's category is ready iff
\* score >= score_high, review iff score_medium <= score < score_high and
\* archive iff score < score_medium, and its record holds the status ready,
\* review or archived accordingly
C2_CategoryBands ==
    (w.pc \in {"categorized", "generated"} /\ w.cfg.score_high >= w.cfg.score_medium)
    => LET s == w.score_result.score
           row == w.articles[w.article_id]
       IN /\ w.category \in Categories
          /\ w.category = "ready" <=> s >= w.cfg.score_high
          /\ w.category = "review" <=> (w.cfg.score_medium <= s /\ s < w.cfg.score_high)
          /\ w.category = "archive" <=> s < w.cfg.score_medium
          /\ row.url = w.article
          /\ row.status = PersistedAs(w.category)
          /\ row.score = <<s>>

\* C2 witness: a score equal to score_medium, below score_high, is in review
C2_Witness ==
    /\ w.pc = "categorized"
    /\ w.score_result.score = w.cfg.score_medium
    /\ w.cfg.score_medium < w.cfg.score_high
    /\ w.category = "review"
    /\ w.articles[w.article_id].status = "review"

\* the step calls the content generator
GeneratorInvoked == w'.api.generate = w.api.generate + 1

\* C3: for an inserted article the content generator is called iff its score
\* is at least score_medium and it is flagged relevant; an archived or an
\* irrelevant article never causes a call, and no other step of the run calls
\* the generator
C3_GenerationGate ==
    [][/\ w.pc = "categorized"
          => /\ GeneratorInvoked <=> (/\ w.score_result.score >= w.cfg.score_medium
                                      /\ w.score_result.is_bitcoin_relevant = TRUE)
             /\ w.category = "archive" => ~GeneratorInvoked
             /\ ~w.score_result.is_bitcoin_relevant => ~GeneratorInvoked
       /\ (w.pc /= "categorized" /\ w'.runs = w.runs)
             => w'.api.generate = w.api.generate]_vars

\* C3 witness: content was generated for a relevant article whose score equals
\* score_medium
C3_Witness ==
    /\ w.pc = "generated"
    /\ w.score_result.score = w.cfg.score_medium
    /\ w.score_result.is_bitcoin_relevant
    /\ w.api.generate = 1

\* C4: a dry run leaves the output files as it found them, and its store
\* (article records and generated content rows) is the store of the run made
\* without dry_run on the same store, feeds and provider answers
C4_DryRun ==
    /\ w.articles = tw.articles
    /\ w.generated_content = tw.generated_content
    /\ (w.pc /= "idle" /\ w.cfg.dry_run) => w.files = w.start.files

\* C4 witness: a dry run that found output files written by an earlier run has
\* inserted and scored an article and stored content for it, where the run
\* without dry_run has written an entry
C4_Witness ==
    /\ w.pc = "done" /\ w.cfg.dry_run
    /\ w.start.files /= OutputRoot
    /\ Len(w.articles) > Len(w.start.articles)
    /\ Len(w.generated_content) > Len(w.start.generated_content)
    /\ tw.files /= tw.start.files

\* the places in a text where a header block (delimiter, title, tags,
\* delimiter) begins
HeaderBlocks(text) ==
    {i \in 1..(Len(text) - 3) :
        /\ text[i] = <<"---">>
        /\ StartsWith(text[i + 1], "title: ")
        /\ text[i + 2] = <<"tags: #content #bitcoin">>
        /\ text[i + 3] = <<"---">>}

\* the lines of an entry, from its heading to the line before its delimiter
EntryLines(e) == LET f == FormatEntry(e) IN Strip(SubSeq(f, 1, Len(f) - 2))

\* the lines of a text cut at its delimiter lines, blank lines at the ends of
\* each piece removed; what follows the last delimiter is dropped
RECURSIVE Pieces(_, _)
Pieces(lines, piece) ==
    IF lines = << >> THEN << >>
    ELSE IF lines[1] = <<"---">> THEN <<Strip(Join(piece))>> \o Pieces(Tail(lines), << >>)
    ELSE Pieces(Tail(lines), Append(piece, lines[1]))

\* C5: after one or more append_content calls on a category file that did not
\* exist, the file begins with the header block of its category and holds no
\* other header block
C5_OneHeaderFirst ==
    \A c \in Categories :
        sb.log[c] /= << >>
        => LET text == sb.files[FileOf(c)]
           IN /\ text /= NoFile
              /\ Len(text) >= 4
              /\ SubSeq(text, 1, 4) = << <<"---">>, <<"title: ", HeaderTitle(c)>>,
                                         <<"tags: #content #bitcoin">>, <<"---">> >>
              /\ HeaderBlocks(text) = {1}

\* C5 witness: a file has been appended to more than once
C5_Witness == \E c \in Categories : Len(sb.log[c]) >= 2

\* C6: after any append_content calls on a category file, the entries below
\* the header are the appended entries in reverse order of the calls, the
\* newest directly after the header's closing delimiter
C6_NewestFirst ==
    \A c \in Categories :
        sb.log[c] /= << >>
        => LET text == sb.files[FileOf(c)]
               n == Len(sb.log[c])
           IN /\ Len(text) >= 6
              /\ text[4] = <<"---">> /\ text[5] = EmptyLine
              /\ text[6] = <<"## ", sb.log[c][n].title>>
              /\ Pieces(SubSeq(text, 5, Len(text)), << >>)
                    = [i \in 1..n |-> EntryLines(sb.log[c][n + 1 - i])]

\* C6 witness: three different entries were appended to one file
C6_Witness ==
    \E c \in Categories :
        /\ Len(sb.log[c]) = 3
        /\ sb.log[c][1] /= sb.log[c][2] /\ sb.log[c][2] /= sb.log[c][3]
        /\ sb.log[c][1].url /= sb.log[c][3].url

\* a scoring response that is not JSON, or JSON that is no object, or an
\* object whose "score" cannot be converted to a number
MalformedScoring(text) ==
    LET parsed == JsonLoads(StripFence(text))
    IN \/ ~parsed.ok
       \/ parsed.data.kind /= "object"
       \/ parsed.data.score.k \in {"str", "null"}

\* C7: on every malformed scoring response score_article raises nothing and
\* returns score 1, reason 'Failed to parse', is_bitcoin_relevant false
C7_MalformedScoreDegrades ==
    (call.fn = "score_article" /\ call.done /\ MalformedScoring(call.text))
    => call.score = [raised |-> "none", score |-> 1, reason |-> "Failed to parse",
                     is_bitcoin_relevant |-> FALSE]

\* a generation response that is not JSON, or JSON that is no object
MalformedGeneration(text) ==
    LET parsed == JsonLoads(StripFence(text))
    IN ~parsed.ok \/ parsed.data.kind /= "object"

\* C8: on every malformed generation response generate_content raises nothing
\* and returns three empty variants
C8_MalformedGenerationDegrades ==
    (call.fn = "generate_content" /\ call.done /\ MalformedGeneration(call.text))
    => call.content = [raised |-> "none", tweet |-> "", thread |-> "", linkedin |-> ""]

\* the articles inserted and the scoring calls made by the run so far
Inserted == Len(w.articles) - Len(w.start.articles)
ScoringCalls == w.api.score

\* C9 as stated: a run with max_articles = 0 inserts nothing, calls the
\* provider for nothing and returns stats with new = 0
C9_ZeroBudgetNewIsZero ==
    (w.pc = "done" /\ w.cfg.max_articles = 0)
    => /\ w.articles = w.start.articles
       /\ w.api = [score |-> 0, generate |-> 0]
       /\ w.stats.new = 0

\* C9 as amended: a run with max_articles = 0 inserts nothing and calls the
\* provider for nothing; in its stats scored and generated are 0, fetched is
\* the number of articles pulled, and new is at most 1: the first article
\* pulled whose URL is not in the store is counted as new and ends the run
C9_ZeroBudget ==
    (w.pc /= "idle" /\ w.cfg.max_articles = 0)
    => /\ w.pc \in {"fetch", "done"}
       /\ w.articles = w.start.articles
       /\ w.generated_content = w.start.generated_content
       /\ w.api = [score |-> 0, generate |-> 0]
       /\ w.stats.scored = 0 /\ w.stats.generated = 0
       /\ w.stats.fetched = w.stats.skipped_duplicate + w.stats.new
       /\ w.stats.new <= 1
       /\ w.stats.new = 1 => (w.pc = "done" /\ ~HasRecord(w.articles, w.article))

\* C9 witness: a run with max_articles = 0 has ended on an article not in the
\* store, after skipping a duplicate
C9_Witness ==
    /\ w.pc = "done" /\ w.cfg.max_articles = 0
    /\ w.stats.new = 1 /\ w.stats.fetched = 2

\* C10: a run inserts and scores at most max_articles articles; pulling an
\* article that is no duplicate when the budget is used up ends the run with
\* no insert, provider call, store update or append, and nothing more happens
\* in that run
C10_BudgetHardStop ==
    /\ [](w.pc /= "idle" => (Inserted <= w.cfg.max_articles
                             /\ ScoringCalls <= w.cfg.max_articles))
    /\ [][(PullsArticle /\ ~HasRecord(w.articles, PulledUrl)
             /\ Inserted >= w.cfg.max_articles)
            => (w'.pc = "done" /\ StoreAndOutputUnchanged)]_vars
    /\ [][w.pc = "done"
            => /\ w'.pc = "fetch" /\ w'.runs = w.runs + 1
               /\ w'.articles = w.articles
               /\ w'.generated_content = w.generated_content
               /\ w'.files = w.files]_vars

\* C10 witness: a run with a budget of at least one article used it up and
\* was ended by one more new article
C10_Witness ==
    /\ w.pc = "done" /\ w.cfg.max_articles >= 1
    /\ Inserted = w.cfg.max_articles
    /\ w.stats.new = w.cfg.max_articles + 1

\* the number of entries the output logs hold for a URL (an entry has one
\* Link line)
LinkLines(text, url) == {i \in 1..Len(text) : text[i] = <<"**Link:** ", url>>}
OutputEntries(files, url) ==
    Cardinality(LinkLines(files["ReadyToPost"], url))
    + Cardinality(LinkLines(files["NeedsReview"], url))
    + Cardinality(LinkLines(files["Archive"], url))
    + Cardinality(LinkLines(files["Other"], url))

C12_InvertedThresholdsRejected ==
    (w.pc /= "idle" /\ w.cfg.score_high < w.cfg.score_medium)
    => /\ w.articles = w.start.articles
       /\ w.generated_content = w.start.generated_content
       /\ w.files = w.start.files
       /\ w.api = [score |-> 0, generate |-> 0]
       /\ w.category = None

\* C13: a run is ended by an exception only when the store fails; an answer of
\* the provider for one article never ends it
C13_ArticleFailureContained ==
    w.pc = "crashed" => w.raised = "IntegrityError"

ContentTypes == {"tweet", "thread", "linkedin"}

\* the rows of generated_content that hold a content type of an article
RowsOf(rows, id, t) ==
    {k \in 1..Len(rows) : rows[k].article_id = id /\ rows[k].content_type = t}

\* whatever the provider answers, the rows stored for the answer are one row
\* for each variant that is not empty, whichever the other variants are
RowPerNonEmptyVariant ==
    \A text \in GenTexts :
        LET c == generate_content(text)
            rows == StoreContent(<< >>, 1, c)
        IN c.raised = "none"
           => \A t \in ContentTypes :
                 IF Truthy(c[t])
                 THEN \E k \in 1..Len(rows) :
                         /\ RowsOf(rows, 1, t) = {k}
                         /\ rows[k].content = c[t]
                 ELSE RowsOf(rows, 1, t) = {}

\* C14: every GeneratedContent row belongs to a record that passed the
\* generation gate (status ready or review, never archived or new) and holds a
\* non-empty text; a record has at most one row per content type; rows are
\* written only by the generation step of an article with score >=
\* score_medium flagged relevant, one row for each variant the provider
\* returned non-empty and none for the others
C14_ContentRows ==
    /\ []RowPerNonEmptyVariant
    /\ [](\A k \in 1..Len(w.generated_content) :
             LET r == w.generated_content[k]
             IN /\ r.article_id \in 1..Len(w.articles)
                /\ w.articles[r.article_id].status \in {"ready", "review"}
                /\ Truthy(r.content)
                /\ RowsOf(w.generated_content, r.article_id, r.content_type) = {k})
    /\ [][w'.generated_content /= w.generated_content
            => /\ w.pc = "categorized"
               /\ w.score_result.score >= w.cfg.score_medium
               /\ w.score_result.is_bitcoin_relevant]_vars
    /\ [][(w.pc = "categorized" /\ w'.pc = "generated")
            => /\ SubSeq(w'.generated_content, 1, Len(w.generated_content))
                     = w.generated_content
               /\ \A t \in ContentTypes :
                     IF Truthy(w'.content[t])
                     THEN \E k \in 1..Len(w'.generated_content) :
                             /\ RowsOf(w'.generated_content, w.article_id, t) = {k}
                             /\ k > Len(w.generated_content)
                             /\ w'.generated_content[k].content = w'.content[t]
                     ELSE RowsOf(w'.generated_content, w.article_id, t) = {}]_vars

\* C14 witness: the provider returned a tweet and an empty thread, and the one
\* row stored for the article is the tweet
C14_Witness ==
    /\ w.pc = "generated"
    /\ w.content.tweet = "tw" /\ w.content.thread = ""
    /\ RowsOf(w.generated_content, w.article_id, "tweet") /= {}
    /\ RowsOf(w.generated_content, w.article_id, "thread") = {}
    /\ Len(w.generated_content) > Len(w.start.generated_content)
    /\ Len(w.start.generated_content) > 0

\* the log that matches a persisted status
LogOfStatus(status) ==
    CASE status = "ready" -> "ReadyToPost"
      [] status = "review" -> "NeedsReview"
      [] status = "archived" -> "Archive"
      [] OTHER -> "Other"

\* the record has exactly one output entry, and it is in the log of its status
OneEntryInItsLog(files, row) ==
    /\ OutputEntries(files, row.url) = 1
    /\ Cardinality(LinkLines(files[LogOfStatus(row.status)], row.url)) = 1

\* the records the run in progress has inserted
InsertedByRun == (Len(w.start.articles) + 1)..Len(w.articles)

SameUrlHash(u, v) == Sha256(u)[1] = Sha256(v)[1]

FinalStatuses == {"ready", "review", "archived"}

\* C17: a record is created with status 'new' and null score; status is 'new'
\* iff the score is null; a record changes only once, at the update of the
\* article in hand, which sets score, score_reason and status together to a
\* final status and leaves its URL and title alone; a record with a final
\* status never changes again, in this run or a later one
C17_MutatedOnce ==
    /\ [](\A i \in 1..Len(w.articles) :
             LET row == w.articles[i]
             IN /\ row.status \in FinalStatuses \cup {"new"}
                /\ row.status = "new" <=> row.score = Null
                /\ row.status = "new" <=> row.score_reason = Null)
    /\ [][/\ Len(w'.articles) >= Len(w.articles)
          /\ Len(w'.articles) <= Len(w.articles) + 1
          /\ Len(w'.articles) > Len(w.articles)
                => LET row == w'.articles[Len(w'.articles)]
                   IN row.status = "new" /\ row.score = Null /\ row.score_reason = Null
          /\ \A i \in 1..Len(w.articles) :
                w'.articles[i] /= w.articles[i]
                => /\ w.pc = "scored" /\ i = w.article_id
                   /\ w.articles[i].status = "new"
                   /\ w'.articles[i].status \in FinalStatuses
                   /\ w'.articles[i].score = <<w.score_result.score>>
                   /\ w'.articles[i].score_reason = <<w.score_result.reason>>
                   /\ w'.articles[i].url = w.articles[i].url
                   /\ w'.articles[i].url_hash = w.articles[i].url_hash
                   /\ w'.articles[i].title = w.articles[i].title]_vars

\* C17 witness: a record stored as ready by an earlier run is as it was after
\* a run whose score_medium is above its score skipped its URL and scored
\* another article
C17_Witness ==
    /\ w.pc = "done" /\ w.runs = 2
    /\ Len(w.start.articles) = 1 /\ Len(w.articles) = 2
    /\ w.start.articles[1].status = "ready"
    /\ w.start.articles[1].score = <<1>> /\ w.cfg.score_medium = 2
    /\ w.articles[1] = w.start.articles[1]
    /\ w.articles[2].status \in FinalStatuses
    /\ w.stats.skipped_duplicate = 1

\* the records a run found in status 'new': those of articles on which an
\* earlier run ended between insert_article and update_score
Orphans == {i \in 1..Len(w.start.articles) : w.start.articles[i].status = "new"}

\* C18: a record left in status 'new' by a run that ended between its insert
\* and its update stays as it is in every later run: it is never the article
\* in hand, gets no content row and no output entry, and pulling its URL is a
\* duplicate skip with no provider call; and when a run is ended by an
\* exception, the records, content rows and output entries it found are
\* still there
C18_OrphanStaysNew ==
    /\ [](w.pc /= "idle"
             => \A i \in Orphans :
                   /\ w.articles[i] = w.start.articles[i]
                   /\ w.articles[i].score = Null
                   /\ w.article_id /= i
                   /\ \A t \in ContentTypes : RowsOf(w.generated_content, i, t) = {}
                   /\ OutputEntries(w.files, w.articles[i].url) = 0)
    /\ [][(PullsArticle /\ \E i \in Orphans : w.articles[i].url = PulledUrl)
            => /\ w'.stats.skipped_duplicate = w.stats.skipped_duplicate + 1
               /\ w'.pc = "fetch"
               /\ w'.api = w.api]_vars
    /\ [](w.pc = "crashed"
             => /\ SubSeq(w.articles, 1, Len(w.start.articles)) = w.start.articles
                /\ SubSeq(w.generated_content, 1, Len(w.start.generated_content))
                      = w.start.generated_content
                /\ \A u \in Urls :
                      OutputEntries(w.files, u) >= OutputEntries(w.start.files, u))

\* C18 witness: a run ended by an exception of the scoring call left a 'new'
\* record; the next run skipped its URL, processed another article and ended
C18_Witness ==
    /\ w.pc = "done" /\ w.runs = 2
    /\ Orphans = {1}
    /\ w.stats.skipped_duplicate = 1
    /\ Len(w.articles) = 2 /\ w.articles[2].status \in FinalStatuses
    /\ w.articles[1].status = "new"

\* the positions of a run at which an article is in hand
InHand == {"inserted", "scored", "categorized", "generated"}

NextSteps(pc) ==
    CASE pc = "idle" -> {"fetch"}
      [] pc = "fetch" -> {"fetch", "inserted", "done", "crashed"}
      [] pc = "inserted" -> {"scored", "crashed"}
      [] pc = "scored" -> {"categorized"}
      [] pc = "categorized" -> {"generated", "crashed"}
      [] pc = "generated" -> {"fetch"}
      [] pc = "done" -> {"fetch"}
      [] pc = "crashed" -> {"fetch"}

BodyOf(files, c) ==
    LET text == files[FileOf(c)]
    IN IF text = NoFile THEN << >> ELSE SubSeq(text, 5, Len(text))

\* the entries in a category file, each with one heading and one Link line
EntryCount(files, c) ==
    Cardinality({i \in 1..Len(BodyOf(files, c)) :
                    /\ BodyOf(files, c)[i] /= EmptyLine
                    /\ BodyOf(files, c)[i][1] = "**Link:** "})

\* C20: a category file holds as many entries as appends were made to the
\* category, as many for each URL as appends were made for that URL, and an
\* append leaves every entry written before in the file, unchanged and in
\* the same order, and leaves the other files alone
C20_AppendOnly ==
    /\ [](\A c \in Categories :
             /\ EntryCount(sb.files, c) = Len(sb.log[c])
             /\ Len(Pieces(BodyOf(sb.files, c), << >>)) = Len(sb.log[c])
             /\ \A u \in Urls :
                   Cardinality(LinkLines(BodyOf(sb.files, c), u))
                     = Cardinality({k \in 1..Len(sb.log[c]) : sb.log[c][k].url = u}))
    /\ [][\A c \in Categories :
             LET old == Pieces(BodyOf(sb.files, c), << >>)
                 new == Pieces(BodyOf(sb'.files, c), << >>)
             IN IF sb'.log[c] = sb.log[c]
                THEN sb'.files[FileOf(c)] = sb.files[FileOf(c)]
                ELSE /\ Len(new) = Len(old) + 1
                     /\ SubSeq(new, 2, Len(new)) = old
                     /\ new[1] = EntryLines(sb'.log[c][Len(sb'.log[c])])]_vars

\* C20 witness: the same article was appended twice to one category and the
\* file holds two entries for its URL
C20_Witness ==
    \E c \in Categories :
        /\ Len(sb.log[c]) = 2
        /\ sb.log[c][1] = sb.log[c][2]
        /\ Cardinality(LinkLines(sb.files[FileOf(c)], sb.log[c][1].url)) = 2

\* the entry has a link and its published date makes date_parser.parse raise
\* an error that fetch_feed's inner except does not name
BadEntry(e) == e.link /= "" /\ e.published = "overflow"

\* the feed's fetch fails, or one of its entries fails to parse
FeedFails(feed) ==
    feed.fetch = "raises" \/ \E k \in 1..Len(feed.entries) : BadEntry(feed.entries[k])

\* the entry has a link
HasLink(e) == e.link /= ""

\* the links of the entries that come before the first entry that fails to
\* parse, in the feed's order
GoodLinks(feed) ==
    LET q == feed.entries
        bad == {k \in 1..Len(q) : BadEntry(q[k])}
        stop == IF bad = {} THEN Len(q) + 1 ELSE CHOOSE k \in bad : \A l \in bad : k <= l
        kept == SelectSeq(SubSeq(q, 1, stop - 1), HasLink)
    IN [n \in 1..Len(kept) |-> kept[n].link]

\* the URLs the generator has yielded, and those yielded from one feed
YieldedUrls(g) == {g.yielded[k].url : k \in 1..Len(g.yielded)}
YieldedFrom(g, i) == {k \in 1..Len(g.yielded) : g.yielded[k].feed = i}

\* where a URL first stands in a list of articles
FirstPos(articles, url) ==
    CHOOSE k \in 1..Len(articles) :
        articles[k] = url /\ \A l \in 1..(k - 1) : articles[l] /= url

\* C21 as stated: a feed whose fetch or parse failed yields no article, and
\* the failure does not end the generator
C21_FailedFeedYieldsNothing ==
    /\ fgen.pc /= "aborted"
    /\ (fgen.pc /= "unused" /\ fgen.i > 0 /\ FeedFails(fgen.feed))
          => YieldedFrom(fgen, fgen.i) = {}

\* C21 as amended: no failure of a feed ends the generator: it is caught and
\* logged, the feed gives the articles built before the failure (none when
\* the fetch itself failed, or the first entry), and the generator goes on to
\* the next configured feed; the feeds are fetched in configuration order,
\* each once; what was yielded before stays yielded; every article of a feed
\* is yielded, in the feed's order, unless its URL was yielded before
C21_FeedFailureIsolated ==
    /\ [](fgen.pc \in {"next_feed", "iterating", "exhausted"})
    /\ [](fgen.pc = "exhausted" => fgen.i = MaxFeeds)
    /\ [][fgen.pc = "next_feed"
            => /\ fgen'.pc = "iterating" /\ fgen'.i = fgen.i + 1
               /\ fgen'.yielded = fgen.yielded /\ fgen'.seen_urls = fgen.seen_urls
               /\ fgen'.logged = FeedFails(fgen'.feed)
               /\ fgen'.articles = GoodLinks(fgen'.feed)
               /\ fgen'.feed.fetch = "raises" => fgen'.articles = << >>]_vars
    /\ [][fgen.pc = "iterating"
            => /\ fgen'.i = fgen.i /\ fgen'.feed = fgen.feed
               /\ fgen'.articles = fgen.articles
               /\ fgen'.pc \in {"iterating", "next_feed", "exhausted"}
               /\ \/ fgen'.yielded = fgen.yielded
                  \/ \E url \in Urls \ YieldedUrls(fgen) :
                        fgen'.yielded = Append(fgen.yielded, [url |-> url, feed |-> fgen.i])]_vars
    /\ []((fgen.pc \in {"next_feed", "exhausted"} /\ fgen.i > 0)
             => /\ \A k \in 1..Len(fgen.articles) : fgen.articles[k] \in YieldedUrls(fgen)
                /\ \A k, l \in YieldedFrom(fgen, fgen.i) :
                      k < l => FirstPos(fgen.articles, fgen.yielded[k].url)
                                  < FirstPos(fgen.articles, fgen.yielded[l].url))

\* C21 witness: the second of three feeds failed; the generator has yielded
\* an article of the first feed and an article of the third and is at its end
C21_Witness ==
    /\ fgen.pc = "exhausted" /\ fgen.last_failed = 2
    /\ YieldedFrom(fgen, 1) /= {} /\ YieldedFrom(fgen, 3) /= {}

\* C22: when two runs are in progress on one store and both pass the
\* article_exists check for a URL before either inserts it, one insert
\* succeeds and the other raises on the UNIQUE constraint: the store never
\* holds two records for a URL, and a URL is scored by at most one of the two
\* runs and appended to an output log by at most one, once
C22_UniqueInsertWins ==
    /\ [](\A i, j \in 1..Len(w.articles) :
             w.articles[i].url = w.articles[j].url => i = j)
    /\ [](\A u \in Urls :
             /\ ~(u \in co.scored[1] /\ u \in co.scored[2])
             /\ ~(u \in co.appended[1] /\ u \in co.appended[2])
             /\ OutputEntries(w.files, u) <= 1
             /\ OutputEntries(w.files, u) = 1 <=> u \in co.appended[1] \cup co.appended[2])
    /\ [][(w.pc = "checked" /\ w'.pc /= "checked")
            => IF HasRecord(w.articles, w.article)
               THEN /\ w'.pc = "crashed" /\ w'.raised = "IntegrityError"
                    /\ w'.articles = w.articles
               ELSE /\ w'.pc = "inserted"
                    /\ w'.articles[w'.article_id].url = w.article
                    /\ Len(w'.articles) = Len(w.articles) + 1]_vars
    /\ [][(tw.pc = "checked" /\ tw'.pc /= "checked")
            => IF HasRecord(tw.articles, tw.article)
               THEN /\ tw'.pc = "crashed" /\ tw'.raised = "IntegrityError"
                    /\ tw'.articles = tw.articles
               ELSE /\ tw'.pc = "inserted"
                    /\ tw'.articles[tw'.article_id].url = tw.article
                    /\ Len(tw'.articles) = Len(tw.articles) + 1]_vars

\* C22 witness: both runs passed the check for one URL; run 1 inserted,
\* scored and appended it, and the insert of run 2 failed on the constraint
C22_Witness ==
    /\ tw.pc = "crashed" /\ tw.raised = "IntegrityError"
    /\ tw.article \in co.appended[1]
    /\ tw.article \notin co.scored[2]
    /\ OutputEntries(w.files, tw.article) = 1
    /\ Cardinality({i \in 1..Len(w.articles) : w.articles[i].url = tw.article}) = 1

\* the records a run found in the store
FoundByRun == 1..Len(w.start.articles)

\* C23: over runs made one after the other on one store, dry runs and runs
\* ended by an exception among them, a URL never has more than one output
\* entry over all logs; a run appends no entry for an article it found in the
\* store, and a dry run appends none at all, so an article processed by a dry
\* run has no entry then and gets none in any later run
C23_AtMostOneEntry ==
    /\ \A u \in Urls : OutputEntries(w.files, u) <= 1
    /\ w.pc /= "idle"
          => \A i \in FoundByRun :
                OutputEntries(w.files, w.articles[i].url)
                  = OutputEntries(w.start.files, w.articles[i].url)
    /\ (w.pc /= "idle" /\ w.cfg.dry_run) => w.files = w.start.files

\* C23 witness: a dry run scored an article and stored content for it; the
\* next run, no dry run, skipped it as a duplicate, wrote an entry for another
\* article and ended, and the first article has no entry
C23_Witness ==
    /\ w.pc = "done" /\ w.runs = 2 /\ ~w.cfg.dry_run
    /\ w.start.files = OutputRoot
    /\ Len(w.start.articles) = 1 /\ w.start.articles[1].status \in {"ready", "review"}
    /\ Len(w.start.generated_content) > 0
    /\ w.stats.skipped_duplicate = 1
    /\ OutputEntries(w.files, w.articles[1].url) = 0
    /\ Len(w.articles) = 2 /\ OutputEntries(w.files, w.articles[2].url) = 1

\* the relations the claim states between the counters of a run
StatsRelations(st, max_articles) ==
    /\ st.fetched = st.skipped_duplicate + st.new
    /\ st.scored = st.ready + st.review + st.archive
    /\ st.scored <= max_articles
    /\ st.scored <= st.new /\ st.new <= st.scored + 1
    /\ st.generated <= st.ready + st.review

\* C24 as stated: the relations hold at every point of a run
C24_StatsAtEveryPoint ==
    w.pc /= "idle" => StatsRelations(w.stats, w.cfg.max_articles)

\* a world with its counters set to zero
SansStats(wd) == [wd EXCEPT !.stats = ZeroStats]

\* whatever the run is given next, its step from the world with other
\* counters is the same step, but for the counters
StatsBlind ==
    CASE w.pc = "fetch" ->
            \A entry \in Urls \cup {EndOfFeeds} :
                SansStats(PullArticle(SansStats(w), entry)) = SansStats(PullArticle(w, entry))
      [] w.pc = "inserted" ->
            \A text \in RunScoreTexts :
                SansStats(ScoreStep(SansStats(w), text)) = SansStats(ScoreStep(w, text))
      [] w.pc = "scored" -> SansStats(Categorize(SansStats(w))) = SansStats(Categorize(w))
      [] w.pc = "categorized" ->
            \A text \in RunGenTexts :
                SansStats(GenerateStep(SansStats(w), text))
                  = SansStats(GenerateStep(w, text))
      [] w.pc = "generated" -> SansStats(WriteStep(SansStats(w))) = SansStats(WriteStep(w))
      [] OTHER -> TRUE

\* C24 as amended: between two articles and in the returned stats the
\* counters satisfy fetched = skipped_duplicate + new, scored = ready + review
\* + archive, scored <= max_articles, scored <= new <= scored + 1 and
\* generated <= ready + review; within the iteration of an article all but
\* the second hold too, and between the scoring call and the assignment of
\* the category scored is one ahead of ready + review + archive; no counter
\* influences what the run does
C24_StatsCounters ==
    /\ (w.pc \in {"fetch", "done"}) => StatsRelations(w.stats, w.cfg.max_articles)
    /\ w.pc /= "idle"
          => LET st == w.stats
             IN /\ st.fetched = st.skipped_duplicate + st.new
                /\ st.scored <= w.cfg.max_articles
                /\ st.scored <= st.new /\ st.new <= st.scored + 1
                /\ st.generated <= st.ready + st.review
                /\ st.scored = st.ready + st.review + st.archive
                                  + (IF w.pc = "scored" THEN 1 ELSE 0)
    /\ StatsBlind

\* C24 witness: a run has returned stats that count a duplicate, a new article
\* scored into review and content generated for it
C24_Witness ==
    /\ w.pc = "done"
    /\ w.stats = [fetched |-> 2, new |-> 1, skipped_duplicate |-> 1, scored |-> 1,
                  generated |-> 1, ready |-> 0, review |-> 1, archive |-> 0]

\* C25: at most one curator process started by the scheduler is alive at any
\* time; while one is alive the scheduler waits in subprocess.run and does
\* nothing else, at the start-up run as at a scheduled run; a process is
\* started only when none is alive; and whatever the last run came to (exit
\* code 0 or not, or not started at all), the scheduler goes back to its loop
\* with the next run set one interval ahead and runs the curator again when
\* that time has come
C25_OneRunAtATime ==
    /\ [](sch.running <= 1)
    /\ [](sch.running = 1 <=> sch.pc = "waiting")
    /\ [][sch'.started /= sch.started
            => /\ sch.running = 0 /\ sch'.running = 1
               /\ sch'.started = sch.started + 1]_vars
    /\ [][sch.pc = "waiting"
            => \/ sch'.pc = "waiting" /\ sch'.running = 1 /\ sch'.next_run = sch.next_run
               \/ sch'.running = 0 /\ sch'.pc \in {"loop", "sleep"}]_vars
    /\ [](sch.pc \in {"main", "run_curator", "waiting", "loop", "sleep"})
    /\ []((sch.pc \in {"loop", "sleep"})
             => sch.next_run <= sch.clock + Interval)
    /\ [][(sch.pc = "run_curator" /\ sch'.pc /= "waiting")
            => /\ sch'.last = "not started" /\ sch'.pc \in {"loop", "sleep"}
               /\ sch'.next_run = sch.clock + Interval]_vars
    /\ [][sch.pc = "loop"
            => IF sch.clock >= sch.next_run THEN sch'.pc = "run_curator"
               ELSE sch'.pc = "sleep"]_vars

\* C25 witness: after a run that exited with a code other than 0, a
\* scheduled run is in progress, an interval or more after start-up
C25_Witness ==
    /\ sch.pc = "waiting" /\ sch.running = 1
    /\ sch.caller = "run_pending"
    /\ sch.last = "exit non-zero"
    /\ sch.started = 2 /\ sch.clock >= Interval

====
